---------------------------- MODULE Spec2Model ----------------------------
(***************************************************************************)
(* Vend-command lifecycle of the vending machine server (app.py, the       *)
(* merged application; flask_server.py holds the same handlers without the *)
(* Transaction log).  The store is the SQL database: the product table,    *)
(* the vend_command table and the transaction table.  Each request handler *)
(* is a pure operator from the store and the request to the new store and  *)
(* the response; an action applies it as one atomic step (Spec) or in the  *)
(* steps of its SQLAlchemy session (SpecConc for acknowledge, SpecBuy for  *)
(* buy_item, SpecTie for buy_item with commits at one instant).  SpecAdmin *)
(* adds the admin's edit and delete requests to the atomic requests, and   *)
(* SpecLive states the fairness of the machines that poll and acknowledge. *)
(***************************************************************************)
EXTENDS Integers, Sequences, FiniteSets, TLC

\* ------------------------------------------------------------- bounds
MaxStock == 2
MaxCommands == 2
\* The ledger's length where the admin edits and deletes products (SpecAdmin):
\* the edits multiply the stores, the ledger is kept one command shorter.
MaxAdminCommands == MaxCommands - 1

ProductIds == {1, 2}
MotorIds == {1, 2}
Prices == {2}
VendIds == {"VM001", "VM002"}
Workers == {"w1", "w2"}
\* A JSON "status" that is not a string (the number 7), as a token of its
\* own: the handler tells it from a string only when it calls .upper() on it.
NonStringStatuses == {"#7"}
AckStatuses == {"success", "failure", "jammed"} \cup NonStringStatuses

NULL == 0

VARIABLES
    db,      \* the database: products, commands, transactions
    now,     \* datetime.utcnow(), as a logical clock
    resp,    \* the response of the last request handled: its result, or the
             \* JSON body of a get_command answer
    hist,    \* history: per pending command, the stock before its purchase
             \* and whether another operation lowered / raised that stock since
    sess     \* per request worker, the SQLAlchemy session of the request it is
             \* handling step by step (SpecConc: acknowledge, SpecBuy: buy_item)

vars == <<db, now, resp, hist, sess>>

\* --------------------------------------------------------- the tables

\* Product row: name, image_url and description are not modelled.
Product(price, stock, motor_id) ==
    [price |-> price, stock |-> stock, motor_id |-> motor_id]

\* VendCommand row; its id is its position in db.commands (autoincrement).
VendCommand(vend_id, product_id, motor_id, status, created_at) ==
    [vend_id |-> vend_id, product_id |-> product_id, motor_id |-> motor_id,
     status |-> status, created_at |-> created_at, acknowledged_at |-> NULL]

\* Transaction row; its id is its position in db.transactions.
Transaction(product_id, quantity, amount_paid) ==
    [product_id |-> product_id, quantity |-> quantity, amount_paid |-> amount_paid]

CommandIds(d) == DOMAIN d.commands

\* Product.query.get(product_id): the row, or none.
HasProduct(d, product_id) == product_id \in DOMAIN d.products

\* ------------------------------------------------------------ buy_item

\* VendCommand.query.filter_by(vend_id=vend_id, status='pending'): the ids.
PendingCommands(d, vend_id) ==
    {c \in CommandIds(d) : d.commands[c].vend_id = vend_id
                           /\ d.commands[c].status = "pending"}

existing_command_none(d, vend_id) == FALSE

\* existing_command = ....first(); "if existing_command:"
existing_command(d, vend_id) == PendingCommands(d, vend_id) # {}

optimistic_decrement_none(stock) == stock

\* product.stock -= 1
optimistic_decrement(stock) == stock - 1

out_of_stock_never(product) == FALSE

\* if product.stock <= 0: "... is out of stock."
out_of_stock(product) == product.stock <= 0

session_rollback_keeps_status(d, staged) ==
    [d EXCEPT !.commands = staged.commands]

\* except Exception: db.session.rollback(): the store as it was, whatever
\* the session had staged.
session_rollback(d, staged) == d

\* POST /buy/<product_id> with form field vend_id, handled at time t;
\* commit_ok is whether db.session.commit() succeeds.
buy_item(d, product_id, vend_id, t, commit_ok) ==
    IF ~HasProduct(d, product_id)
    THEN [db |-> d, result |-> "invalid_product"]
    ELSE IF out_of_stock(d.products[product_id])
    THEN [db |-> d, result |-> "out_of_stock"]
    ELSE IF existing_command(d, vend_id)
    THEN [db |-> d, result |-> "in_progress"]
    ELSE LET product == d.products[product_id]
             new_command == VendCommand(vend_id, product_id, product.motor_id,
                                        "pending", t)
             staged == [d EXCEPT
                          !.commands = Append(@, new_command),
                          !.products[product_id].stock = optimistic_decrement(@)]
         IN IF ~commit_ok
            THEN [db |-> session_rollback(d, staged), result |-> "db_error"]
            ELSE [db |-> staged, result |-> "initiated"]

\* --------------------------------------------------------- get_command

AnyPending(d, vend_id) == PendingCommands(d, vend_id)

OldestOfMachine(d, vend_id) ==
    {c \in CommandIds(d) :
        /\ d.commands[c].vend_id = vend_id
        /\ \A o \in CommandIds(d) :
              d.commands[o].vend_id = vend_id
              => d.commands[c].created_at <= d.commands[o].created_at}

\* .order_by(VendCommand.created_at.asc()).first(): a pending command of the
\* machine with the least created_at; the database picks among ties.
OldestPending(d, vend_id) ==
    {c \in PendingCommands(d, vend_id) :
        \A o \in PendingCommands(d, vend_id) :
            d.commands[c].created_at <= d.commands[o].created_at}

get_command_current_motor(d, command_id) ==
    IF command_id # NULL
    THEN [motor_id |-> d.products[d.commands[command_id].product_id].motor_id,
          command_id |-> command_id]
    ELSE [motor_id |-> NULL, command_id |-> NULL]

\* GET /get_command?vend_id=...: the JSON body, given the row the query chose
\* (NULL when the query found none).
get_command(d, command_id) ==
    IF command_id # NULL
    THEN [motor_id |-> d.commands[command_id].motor_id, command_id |-> command_id]
    ELSE [motor_id |-> NULL, command_id |-> NULL]

get_command_marks_sent(d, command_id) ==
    IF command_id # NULL
    THEN [d EXCEPT !.commands[command_id].status = "sent"]
    ELSE d

\* The store after the poll: the handler only queries, it adds nothing to
\* the session and commits nothing.
get_command_store(d, command_id) == d

\* --------------------------------------------------------- acknowledge

already_processed_never(command) == FALSE

\* if command.status != 'pending': return "Command already processed"
already_processed(command) == command.status # "pending"

vend_id_mismatch_never(command, vend_id) == FALSE

\* if command.vend_id != vend_id: return "Vending machine ID mismatch"
vend_id_mismatch(command, vend_id) == command.vend_id # vend_id

log_transaction_none(d, command) == d.transactions

\* Transaction(product_id=..., quantity=1, amount_paid=product.price), added
\* when the product row is found.
log_transaction(d, command) ==
    IF HasProduct(d, command.product_id)
    THEN Append(d.transactions,
                Transaction(command.product_id, 1,
                            d.products[command.product_id].price))
    ELSE d.transactions

rollback_stock_none(d, command) == d.products

rollback_stock_twice(d, command) ==
    IF HasProduct(d, command.product_id)
    THEN [d.products EXCEPT ![command.product_id].stock = @ + 2]
    ELSE d.products

\* product.stock += 1, when the product row is found.
rollback_stock(d, command) ==
    IF HasProduct(d, command.product_id)
    THEN [d.products EXCEPT ![command.product_id].stock = @ + 1]
    ELSE d.products

find_command_or_last(d, command_id) ==
    IF command_id \in CommandIds(d) THEN command_id ELSE Len(d.commands)

\* command = db.session.get(VendCommand, command_id): the row's id, or none.
find_command(d, command_id) ==
    IF command_id \in CommandIds(d) THEN command_id ELSE NULL

invalid_status_never(ack_status) == FALSE

\* The else branch of "if ack_status == 'success' ... elif ack_status ==
\* 'failure'": return "Invalid status provided".
invalid_status(ack_status) == ack_status \notin {"success", "failure"}

\* log_prefix = f"[ACK_{ack_status.upper()}]", inside the try block: a value
\* that is not a str has no .upper() and raises AttributeError there.
upper_raises(ack_status) == ack_status \in NonStringStatuses

\* POST /acknowledge with JSON {vend_id, command_id, status}, handled at t.
acknowledge(d, vend_id, command_id, ack_status, t, commit_ok) ==
    LET id == find_command(d, command_id) IN
    IF id = NULL
    THEN [db |-> d, result |-> "not_found"]
    ELSE LET command == d.commands[id] IN
    IF vend_id_mismatch(command, vend_id)
    THEN [db |-> d, result |-> "mismatch"]
    ELSE IF already_processed(command)
    THEN [db |-> d, result |-> "already_processed"]
    ELSE IF upper_raises(ack_status)
    THEN [db |-> session_rollback(d, d), result |-> "db_error"]
    ELSE IF invalid_status(ack_status)
    THEN [db |-> d, result |-> "invalid_status"]
    ELSE LET staged ==
               IF ack_status = "success"
               THEN [d EXCEPT
                       !.commands[id].status = "acknowledged_success",
                       !.commands[id].acknowledged_at = t,
                       !.transactions = log_transaction(d, command)]
               ELSE [d EXCEPT
                       !.commands[id].status = "acknowledged_failure",
                       !.commands[id].acknowledged_at = t,
                       !.products = rollback_stock(d, command)]
         IN IF ~commit_ok
            THEN [db |-> session_rollback(d, staged), result |-> "db_error"]
            ELSE [db |-> staged, result |-> "received"]

\* --------------------------------------------------------- add_product

\* Product.query.filter_by(motor_id=motor_id).first()
MotorTaken(d, motor_id) ==
    \E p \in DOMAIN d.products : d.products[p].motor_id = motor_id

\* The id the database gives the next product row: the id column's sequence
\* moves on with every insert and does not go back when a row is deleted.
NextProductId(d) == d.product_seq + 1

\* POST /admin/product/add
add_product(d, price, stock, motor_id) ==
    IF price <= 0 \/ stock < 0 \/ motor_id <= 0
    THEN [db |-> d, result |-> "invalid_data"]
    ELSE IF MotorTaken(d, motor_id)
    THEN [db |-> d, result |-> "motor_taken"]
    ELSE LET id == NextProductId(d) IN
         [db |-> [d EXCEPT !.products =
                    [p \in DOMAIN d.products \cup {id} |->
                        IF p = id THEN Product(price, stock, motor_id)
                        ELSE d.products[p]],
                           !.product_seq = id],
          result |-> "added"]

\* -------------------------------------------------------- edit_product

invalid_product_data_never(price, stock, motor_id) == FALSE

\* if not product.name or product.price <= 0 or product.stock < 0 or
\* product.motor_id <= 0: the form is shown again, nothing is committed.
invalid_product_data(price, stock, motor_id) ==
    price <= 0 \/ stock < 0 \/ motor_id <= 0

motor_taken_by_other_never(d, id, new_motor_id) == FALSE

\* if new_motor_id != original_motor_id: Product.query.filter(
\* Product.motor_id == new_motor_id, Product.id != id).first()
motor_taken_by_other(d, id, new_motor_id) ==
    /\ new_motor_id # d.products[id].motor_id
    /\ \E p \in DOMAIN d.products \ {id} : d.products[p].motor_id = new_motor_id

\* POST /admin/product/edit/<id>.  The handler assigns the form's values to
\* the row in its session first and returns without a commit when a check
\* fails: the session is dropped at the end of the request, the stored row
\* stays as it was.
edit_product(d, id, price, stock, motor_id) ==
    IF ~HasProduct(d, id)
    THEN [db |-> d, result |-> "not_found"]
    ELSE IF invalid_product_data(price, stock, motor_id)
    THEN [db |-> d, result |-> "invalid_data"]
    ELSE IF motor_taken_by_other(d, id, motor_id)
    THEN [db |-> d, result |-> "motor_taken"]
    ELSE [db |-> [d EXCEPT !.products[id] = Product(price, stock, motor_id)],
          result |-> "updated"]

\* ------------------------------------------------------ delete_product

\* vend_command.product_id and transaction.product_id are NOT NULL foreign
\* keys to product.id with no cascade: the rows that hold the product.
Referenced(d, id) ==
    \/ \E c \in CommandIds(d) : d.commands[c].product_id = id
    \/ \E i \in DOMAIN d.transactions : d.transactions[i].product_id = id

\* POST /admin/product/delete/<id>: db.session.delete(product) and commit; the
\* commit raises IntegrityError when a command or a transaction holds the
\* product, and the handler rolls back.
delete_product(d, id) ==
    IF ~HasProduct(d, id)
    THEN [db |-> d, result |-> "not_found"]
    ELSE IF Referenced(d, id)
    THEN [db |-> d, result |-> "integrity_error"]
    ELSE [db |-> [d EXCEPT !.products =
                    [p \in DOMAIN d.products \ {id} |-> d.products[p]]],
          result |-> "deleted"]

\* ------------------------------------------------------------- history

\* hist after a request took the store from d to d2: a new pending command
\* records the stock its product had before the purchase; a command that is
\* still pending records whether its product's stock went down or up.
Observe(h, d, d2) ==
    [c \in {c \in CommandIds(d2) : d2.commands[c].status = "pending"} |->
        LET p == d2.commands[c].product_id IN
        IF c \notin CommandIds(d)
        THEN [stock0 |-> d.products[p].stock, lowered |-> FALSE, raised |-> FALSE]
        ELSE [stock0 |-> h[c].stock0,
              lowered |-> h[c].lowered \/ d2.products[p].stock < d.products[p].stock,
              raised |-> h[c].raised \/ d2.products[p].stock > d.products[p].stock]]

\* ------------------------------------------------------------- actions

EmptyFunction == [x \in {} |-> NULL]

\* A worker between requests: its session holds nothing.
Idle ==
    [pc |-> "idle", command_id |-> NULL, ack_status |-> "", product |-> {},
     product_id |-> NULL, vend_id |-> ""]

Init ==
    /\ db = [products |-> EmptyFunction, product_seq |-> 0, commands |-> <<>>,
             transactions |-> <<>>]
    /\ now = 1
    /\ resp = [op |-> "none", result |-> "none"]
    /\ hist = EmptyFunction
    /\ sess = [w \in Workers |-> Idle]

\* db.session.commit() succeeds or raises; only a request that reaches its
\* commit has an outcome to choose.
CommitOutcomes(reaches_commit) == IF reaches_commit THEN BOOLEAN ELSE {TRUE}

\* One add_product request.
AddProductReq(price, stock, motor_id) ==
    /\ NextProductId(db) \in ProductIds
    /\ LET r == add_product(db, price, stock, motor_id) IN
        /\ resp' = [op |-> "add_product", result |-> r.result]
        /\ db' = r.db
        /\ hist' = Observe(hist, db, db')
    /\ UNCHANGED <<now, sess>>

AddProduct ==
    \E price \in Prices, stock \in (-1)..MaxStock, motor_id \in MotorIds \cup {0} :
        AddProductReq(price, stock, motor_id)

\* One buy_item request; the clock moves on when a command is created.
BuyItemReq(product_id, vend_id, commit_ok) ==
    /\ Len(db.commands) < MaxCommands
    /\ LET r == buy_item(db, product_id, vend_id, now, commit_ok) IN
        /\ resp' = [op |-> "buy_item", result |-> r.result]
        /\ db' = r.db
        /\ hist' = Observe(hist, db, db')
        /\ now' = IF resp'.result = "initiated" THEN now + 1 ELSE now
    /\ UNCHANGED sess

BuyItem ==
    \E product_id \in ProductIds, vend_id \in VendIds :
        \E commit_ok \in CommitOutcomes(
                buy_item(db, product_id, vend_id, now, TRUE).result = "initiated") :
            BuyItemReq(product_id, vend_id, commit_ok)

\* One get_command poll: the query picks a row, the handler answers with it.
GetCommandReq(vend_id) ==
    /\ \E command_id \in (IF PendingCommands(db, vend_id) = {} THEN {NULL}
                          ELSE OldestPending(db, vend_id)) :
          /\ resp' = [op |-> "get_command", body |-> get_command(db, command_id)]
          /\ db' = get_command_store(db, command_id)
    /\ UNCHANGED <<now, hist, sess>>

GetCommand == \E vend_id \in VendIds : GetCommandReq(vend_id)

\* One acknowledge request.
AcknowledgeReq(vend_id, command_id, ack_status, commit_ok) ==
    LET r == acknowledge(db, vend_id, command_id, ack_status, now, commit_ok) IN
        /\ resp' = [op |-> "acknowledge", result |-> r.result]
        /\ db' = r.db
        /\ hist' = Observe(hist, db, db')
        /\ UNCHANGED <<now, sess>>

Acknowledge ==
    \E vend_id \in VendIds, command_id \in 1..(Len(db.commands) + 1),
       ack_status \in AckStatuses :
        \E commit_ok \in CommitOutcomes(
                acknowledge(db, vend_id, command_id, ack_status, now, TRUE).result
                    = "received") :
            AcknowledgeReq(vend_id, command_id, ack_status, commit_ok)

Next == AddProduct \/ BuyItem \/ GetCommand \/ Acknowledge

Spec == Init /\ [][Next]_vars

\* ------------------------------------------- acknowledge, step by step
\* Concurrent acknowledge requests, each in its own session against the
\* shared database (READ COMMITTED: a session sees what was committed when it
\* reads; its flush writes the values it computed from what it read).

\* command = db.session.get(VendCommand, command_id) and the checks on the
\* row read.  A request that fails a check returns there, as in Acknowledge;
\* one that passes them goes on with its session.
AckBegin(w, vend_id, command_id, ack_status) ==
    /\ sess[w].pc = "idle"
    /\ acknowledge(db, vend_id, command_id, ack_status, now, TRUE).result = "received"
    /\ sess' = [sess EXCEPT ![w] =
                    [Idle EXCEPT !.pc = "checked", !.command_id = command_id,
                                 !.ack_status = ack_status]]
    /\ UNCHANGED <<db, now, resp, hist>>

\* command.product (success) or db.session.get(Product, command.product_id)
\* (failure): the session reads the product row as committed now (the set of
\* rows found: one or none).
AckLoadProduct(w) ==
    /\ sess[w].pc = "checked"
    /\ LET product_id == db.commands[sess[w].command_id].product_id IN
        sess' = [sess EXCEPT ![w].pc = "loaded",
                             ![w].product = IF HasProduct(db, product_id)
                                            THEN {db.products[product_id]}
                                            ELSE {}]
    /\ UNCHANGED <<db, now, resp, hist>>

\* The store as session w holds it at commit: the tables as committed, the
\* product row as the session read it, the command row still pending.
SessionView(w) ==
    LET c == sess[w].command_id
        p == db.commands[c].product_id
    IN [db EXCEPT !.commands[c].status = "pending",
                  !.products = IF sess[w].product = {} THEN @
                               ELSE [@ EXCEPT ![p] = CHOOSE row \in sess[w].product : TRUE]]

\* db.session.commit(): the flush writes the command's status and
\* acknowledged_at, the stock computed from the product row read, and the
\* Transaction row; a failed commit is rolled back.
AckCommit(w, commit_ok) ==
    /\ sess[w].pc = "loaded"
    /\ LET c == sess[w].command_id
           p == db.commands[c].product_id
           r == acknowledge(SessionView(w), db.commands[c].vend_id, c,
                            sess[w].ack_status, now, commit_ok)
           d2 == [db EXCEPT
                    !.commands[c] = r.db.commands[c],
                    !.products = IF sess[w].product = {} THEN @
                                 ELSE [@ EXCEPT ![p].stock = r.db.products[p].stock],
                    !.transactions = r.db.transactions]
       IN /\ resp' = [op |-> "acknowledge", result |-> r.result]
          /\ db' = IF resp'.result = "received" THEN d2 ELSE db
          /\ hist' = Observe(hist, db, db')
    /\ sess' = [sess EXCEPT ![w] = Idle]
    /\ UNCHANGED now

AcknowledgeBegin ==
    \E w \in Workers, vend_id \in VendIds, command_id \in 1..(Len(db.commands) + 1),
       ack_status \in AckStatuses :
        AckBegin(w, vend_id, command_id, ack_status)

AcknowledgeLoad == \E w \in Workers : AckLoadProduct(w)

AcknowledgeCommit == \E w \in Workers, commit_ok \in BOOLEAN : AckCommit(w, commit_ok)

NextConc ==
    AddProduct \/ BuyItem \/ AcknowledgeBegin \/ AcknowledgeLoad \/ AcknowledgeCommit

SpecConc == Init /\ [][NextConc]_vars

\* ---------------------------------------------- buy_item, step by step
\* Concurrent buy_item requests, each in its own session: the queries (the
\* product row, the machine's pending command) run first, the INSERT of the
\* command and the UPDATE of the stock at the commit.  Nothing locks the
\* rows read and vend_command has no unique constraint on the machine.

\* Product.query.get, the stock check and the existing_command query, on the
\* store as committed now.  A request that fails a check returns there, as
\* in BuyItem; one that passes them goes on with the product row it read.
BuyBegin(w, product_id, vend_id) ==
    /\ sess[w].pc = "idle"
    /\ Len(db.commands)
         + Cardinality({o \in Workers : sess[o].pc = "admitted"}) < MaxCommands
    /\ buy_item(db, product_id, vend_id, now, TRUE).result = "initiated"
    /\ sess' = [sess EXCEPT ![w] =
                    [Idle EXCEPT !.pc = "admitted", !.product_id = product_id,
                                 !.vend_id = vend_id,
                                 !.product = {db.products[product_id]}]]
    /\ UNCHANGED <<db, now, resp, hist>>

\* db.session.commit(): the flush inserts the command (created_at defaults
\* to datetime.utcnow() at the insert) and writes the stock computed from the
\* product row read; a failed commit is rolled back.  tick is how far the
\* clock has moved when the next request reads it.
BuyCommitAt(w, commit_ok, tick) ==
    /\ sess[w].pc = "admitted"
    /\ LET product_id == sess[w].product_id
           product == CHOOSE row \in sess[w].product : TRUE
           new_command == VendCommand(sess[w].vend_id, product_id,
                                      product.motor_id, "pending", now)
           d2 == [db EXCEPT
                    !.commands = Append(@, new_command),
                    !.products[product_id].stock =
                        optimistic_decrement(product.stock)]
       IN /\ resp' = [op |-> "buy_item",
                      result |-> IF commit_ok THEN "initiated" ELSE "db_error"]
          /\ db' = IF commit_ok THEN d2 ELSE session_rollback(db, d2)
          /\ hist' = Observe(hist, db, db')
          /\ now' = IF commit_ok THEN now + tick ELSE now
    /\ sess' = [sess EXCEPT ![w] = Idle]

\* The commit of a purchase; the next command is created at a later time.
BuyCommit(w, commit_ok) == BuyCommitAt(w, commit_ok, 1)

BuyItemBegin ==
    \E w \in Workers, product_id \in ProductIds, vend_id \in VendIds :
        BuyBegin(w, product_id, vend_id)

BuyItemCommit == \E w \in Workers, commit_ok \in BOOLEAN : BuyCommit(w, commit_ok)

\* An acknowledge request that is processed and committed; the others leave
\* the store as it is (Acknowledge has them all).
AcknowledgeProcessed ==
    \E vend_id \in VendIds, command_id \in CommandIds(db),
       ack_status \in {"success", "failure"} :
        /\ acknowledge(db, vend_id, command_id, ack_status, now, TRUE).result
              = "received"
        /\ AcknowledgeReq(vend_id, command_id, ack_status, TRUE)

NextBuy ==
    \/ AddProduct
    \/ BuyItemBegin
    \/ BuyItemCommit
    \/ GetCommand
    \/ AcknowledgeProcessed

SpecBuy == Init /\ [][NextBuy]_vars

\* --------------------------------------------- purchases at one instant
\* As SpecBuy, with a clock that need not have moved between two inserts:
\* datetime.utcnow() has a resolution (a microsecond), and two requests that
\* commit within it store the same created_at.

BuyItemCommitAnyTime ==
    \E w \in Workers, commit_ok \in BOOLEAN, tick \in {0, 1} :
        BuyCommitAt(w, commit_ok, tick)

NextTie ==
    \/ AddProduct
    \/ BuyItemBegin
    \/ BuyItemCommitAnyTime
    \/ GetCommand
    \/ AcknowledgeProcessed

SpecTie == Init /\ [][NextTie]_vars

\* ------------------------------------------------- the admin's requests
\* Purchases and acknowledgments, one atomic step per request, together with
\* the admin's add, edit and delete requests.

\* One edit_product request.
EditProductReq(id, price, stock, motor_id) ==
    /\ LET r == edit_product(db, id, price, stock, motor_id) IN
        /\ resp' = [op |-> "edit_product", result |-> r.result]
        /\ db' = r.db
        /\ hist' = Observe(hist, db, db')
    /\ UNCHANGED <<now, sess>>

EditProduct ==
    \E id \in ProductIds, price \in Prices, stock \in (-1)..MaxStock,
       motor_id \in MotorIds \cup {0} :
        EditProductReq(id, price, stock, motor_id)

\* One delete_product request.
DeleteProductReq(id) ==
    /\ LET r == delete_product(db, id) IN
        /\ resp' = [op |-> "delete_product", result |-> r.result]
        /\ db' = r.db
        /\ hist' = Observe(hist, db, db')
    /\ UNCHANGED <<now, sess>>

DeleteProduct == \E id \in ProductIds : DeleteProductReq(id)

\* A buy_item request while the ledger is short of MaxAdminCommands.
BuyItemAdmin == Len(db.commands) < MaxAdminCommands /\ BuyItem

NextAdmin ==
    \/ AddProduct
    \/ EditProduct
    \/ DeleteProduct
    \/ BuyItemAdmin
    \/ GetCommand
    \/ AcknowledgeProcessed

SpecAdmin == Init /\ [][NextAdmin]_vars

\* ------------------------------------------------- the fair actuator
\* The machines' side of the protocol (the ESP32 client of get_command and
\* acknowledge): a machine polls, and acknowledges the command the poll hands
\* it with its own vend_id and the outcome of the vend.

\* The machine vend_id acknowledges the command its poll returns; the
\* commit of the request succeeds or fails.
ActuatorAcknowledge(vend_id, commit_ok) ==
    \E command_id \in OldestPending(db, vend_id),
       ack_status \in {"success", "failure"} :
        AcknowledgeReq(vend_id, command_id, ack_status, commit_ok)

\* An acknowledgment of the machine that the store commits.
ActuatorStored(vend_id) == ActuatorAcknowledge(vend_id, TRUE)

ActuatorAcknowledged == \E vend_id \in VendIds : ActuatorStored(vend_id)

\* An acknowledgment of a machine whose commit fails.
ActuatorFailed == \E vend_id \in VendIds : ActuatorAcknowledge(vend_id, FALSE)

NextLive ==
    \/ AddProduct
    \/ BuyItem
    \/ GetCommand
    \/ ActuatorAcknowledged
    \/ ActuatorFailed

\* A machine that is handed a command does not poll and fail for ever: an
\* acknowledgment of it is committed in the end.
FairActuator == \A vend_id \in VendIds : WF_vars(ActuatorStored(vend_id))

SpecLive == Init /\ [][NextLive]_vars /\ FairActuator

\* -------------------------------------------------------------- claims

\* The last request handled was an op request answered with result.
Answered(op, result) == resp.op = op /\ resp.result = result

NonTerminal == {"pending", "awaiting_payment"}

NonTerminalCommands(d, vend_id) ==
    {c \in CommandIds(d) : d.commands[c].vend_id = vend_id
                           /\ d.commands[c].status \in NonTerminal}

\* C1: after any sequence of atomically executed purchase, get_command and
\* acknowledge requests, every machine has at most one command whose status
\* is pending or awaiting_payment.
C1_SingleFlight ==
    \A vend_id \in VendIds : Cardinality(NonTerminalCommands(db, vend_id)) <= 1

\* A machine that has had a command acknowledged and has a pending one now.
C1_Witness ==
    \E vend_id \in VendIds :
        /\ Cardinality(NonTerminalCommands(db, vend_id)) = 1
        /\ \E c \in CommandIds(db) :
              /\ db.commands[c].vend_id = vend_id
              /\ db.commands[c].status \notin NonTerminal

\* C2: for a pending command, a second and a third delivery of the same
\* acknowledge request (success or failure, the command's own vend_id) leave
\* the store (statuses, stock, Transaction rows) exactly as the first delivery
\* left it, and are answered "already processed".
C2_AckIdempotent ==
    \A c \in CommandIds(db) : \A ack_status \in {"success", "failure"} :
        db.commands[c].status = "pending" =>
            LET v == db.commands[c].vend_id
                r1 == acknowledge(db, v, c, ack_status, now, TRUE)
                r2 == acknowledge(r1.db, v, c, ack_status, now + 1, TRUE)
                r3 == acknowledge(r2.db, v, c, ack_status, now + 2, TRUE)
            IN /\ r1.result = "received"
               /\ r1.db # db
               /\ r2.result = "already_processed" /\ r2.db = r1.db
               /\ r3.result = "already_processed" /\ r3.db = r1.db

\* A repeated acknowledgment has been answered "already processed" while a
\* success and its single Transaction row are in the store.
C2_Witness ==
    /\ Answered("acknowledge", "already_processed")
    /\ Len(db.transactions) = 1
    /\ \E c \in CommandIds(db) : db.commands[c].status = "acknowledged_success"

\* C3: when acknowledge requests for the same pending command interleave at
\* their steps (read the command, read the product, commit), the effects are
\* applied at most once: the commit of a request whose command another
\* request has already acknowledged changes no status, no stock and no
\* Transaction row.
C3_ConcurrentAckOnce ==
    [][\A w \in Workers :
        (/\ sess[w].pc = "loaded" /\ sess'[w].pc = "idle"
         /\ db.commands[sess[w].command_id].status # "pending")
        => db' = db]_vars

C5_MismatchRejected ==
    \A vend_id \in VendIds, command_id \in CommandIds(db),
       ack_status \in AckStatuses, commit_ok \in BOOLEAN :
        db.commands[command_id].vend_id # vend_id =>
            acknowledge(db, vend_id, command_id, ack_status, now, commit_ok)
                = [db |-> db, result |-> "mismatch"]

\* A mismatched acknowledgment was rejected while its command is pending.
C5_Witness ==
    /\ Answered("acknowledge", "mismatch")
    /\ \E c \in CommandIds(db) : db.commands[c].status = "pending"

\* C6 as stated: a successful purchase leaves the product's stock unchanged.
C6_StockKeptAtPurchase ==
    [][\A product_id \in ProductIds, vend_id \in VendIds :
        (/\ resp'.op = "buy_item" /\ resp'.result = "initiated"
         /\ BuyItemReq(product_id, vend_id, TRUE))
        => /\ db'.commands[Len(db'.commands)].status = "pending"
           /\ db'.products[product_id].stock = db.products[product_id].stock]_vars

\* C6 amended: a successful purchase creates a pending command and lowers the
\* stock of its product by exactly 1, leaving every other product's stock; a
\* processed success acknowledgment changes no product's stock.
C6_StockLoweredAtPurchase ==
    [][/\ \A product_id \in ProductIds, vend_id \in VendIds :
            (/\ resp'.op = "buy_item" /\ resp'.result = "initiated"
             /\ BuyItemReq(product_id, vend_id, TRUE))
            => /\ Len(db'.commands) = Len(db.commands) + 1
               /\ db'.commands[Len(db'.commands)].status = "pending"
               /\ db'.commands[Len(db'.commands)].product_id = product_id
               /\ db'.products[product_id].stock = db.products[product_id].stock - 1
               /\ \A q \in DOMAIN db.products \ {product_id} :
                    db'.products[q] = db.products[q]
       /\ \A vend_id \in VendIds, command_id \in CommandIds(db) :
            (/\ resp'.op = "acknowledge" /\ resp'.result = "received"
             /\ AcknowledgeReq(vend_id, command_id, "success", TRUE))
            => db'.products = db.products]_vars

\* A purchase was admitted and then acknowledged with success.
C6_Witness ==
    /\ Answered("acknowledge", "received")
    /\ \E c \in CommandIds(db) :
          /\ db.commands[c].status = "acknowledged_success"
          /\ db.commands[c].acknowledged_at = now

\* No other request changed the stock of the command's product since the
\* command was created.
Undisturbed(c) == ~hist[c].lowered /\ ~hist[c].raised

\* C7: from stock s > 0 and a machine with no pending command, a purchase
\* followed by one success acknowledgment of that command, with no other
\* change of that product's stock in between, leaves the command in
\* acknowledged_success and the stock at s - 1.
C7_SuccessLeavesStockMinusOne ==
    [][\A vend_id \in VendIds, command_id \in CommandIds(db) :
        (/\ resp'.op = "acknowledge" /\ resp'.result = "received"
         /\ AcknowledgeReq(vend_id, command_id, "success", TRUE)
         /\ Undisturbed(command_id))
        => /\ hist[command_id].stock0 > 0
           /\ db'.commands[command_id].status = "acknowledged_success"
           /\ db'.products[db.commands[command_id].product_id].stock
                = hist[command_id].stock0 - 1]_vars

\* A success was processed for the only command of a product added with
\* stock MaxStock: the stock is MaxStock - 1.
C7_Witness ==
    /\ Answered("acknowledge", "received")
    /\ Len(db.commands) = 1
    /\ db.commands[1].status = "acknowledged_success"
    /\ db.products[db.commands[1].product_id].stock = MaxStock - 1

TransactionsOf(d, product_id) ==
    {i \in DOMAIN d.transactions : d.transactions[i].product_id = product_id}

SuccessesOf(d, product_id) ==
    {c \in CommandIds(d) : d.commands[c].product_id = product_id
                           /\ d.commands[c].status = "acknowledged_success"}

CountsAgree(d) ==
    \A product_id \in ProductIds :
        Cardinality(TransactionsOf(d, product_id))
            = Cardinality(SuccessesOf(d, product_id))

\* C8: in every reachable state each product has as many Transaction rows as
\* commands in acknowledged_success, and the Transaction table changes only
\* by a command going from pending to acknowledged_success, which appends one
\* row of quantity 1 and amount_paid the product's price at that moment.
C8_TransactionPerSuccess ==
    /\ CountsAgree(db)
    /\ [][/\ CountsAgree(db')
          /\ db'.transactions # db.transactions =>
                \E c \in CommandIds(db) :
                    /\ db.commands[c].status = "pending"
                    /\ db'.commands[c].status = "acknowledged_success"
                    /\ db'.transactions =
                         Append(db.transactions,
                                Transaction(db.commands[c].product_id, 1,
                                    db.products[db.commands[c].product_id].price))
         ]_vars

\* Two successes have been logged.
C8_Witness ==
    /\ Len(db.transactions) = 2
    /\ \A c \in CommandIds(db) : db.commands[c].status = "acknowledged_success"

\* C9 as stated: a processed failure acknowledgment sets acknowledged_failure
\* and returns the product's stock to its value before the purchase request.
C9_FailureRestoresOriginal ==
    [][\A vend_id \in VendIds, command_id \in CommandIds(db) :
        (/\ resp'.op = "acknowledge" /\ resp'.result = "received"
         /\ AcknowledgeReq(vend_id, command_id, "failure", TRUE))
        => /\ db'.commands[command_id].status = "acknowledged_failure"
           /\ db'.products[db.commands[command_id].product_id].stock
                = hist[command_id].stock0]_vars

\* C9 amended: a processed failure acknowledgment sets acknowledged_failure
\* and raises the stock of the command's product by exactly 1, which is its
\* value before the purchase request when no other request changed that stock
\* in between; a failure acknowledgment of a command that is no longer
\* pending changes nothing.
C9_FailureRestoresOnce ==
    [][resp'.op = "acknowledge" =>
        \A vend_id \in VendIds, command_id \in CommandIds(db) :
        LET p == db.commands[command_id].product_id IN
        /\ (/\ resp'.result = "received"
            /\ AcknowledgeReq(vend_id, command_id, "failure", TRUE))
           => /\ db'.commands[command_id].status = "acknowledged_failure"
              /\ db'.products[p].stock = db.products[p].stock + 1
              /\ \A q \in DOMAIN db.products \ {p} :
                    db'.products[q] = db.products[q]
              /\ Undisturbed(command_id) =>
                    db'.products[p].stock = hist[command_id].stock0
        /\ db.commands[command_id].status # "pending"
           => \/ db' = db
              \/ \A commit_ok \in BOOLEAN :
                    ~AcknowledgeReq(vend_id, command_id, "failure",
                                    commit_ok)]_vars

\* A failure was acknowledged twice: the stock is back at its first value.
C9_Witness ==
    /\ Answered("acknowledge", "already_processed")
    /\ Len(db.commands) = 1
    /\ db.commands[1].status = "acknowledged_failure"
    /\ db.products[db.commands[1].product_id].stock = MaxStock

\* C10 as stated: processing a failure acknowledgment lowers no product's
\* stock and leaves the stock of the command's product not below its value
\* when the command was created (no admin edit happens in this
\* specification).  The value at creation is the stock the purchase was
\* admitted against; the value after the purchase's own decrement is
\* undercut as well, by two further sales (3 -> 2 -> 1 -> 0 -> 1).
C10_FailureNotBelowCreation ==
    [][\A vend_id \in VendIds, command_id \in CommandIds(db) :
        (/\ resp'.op = "acknowledge" /\ resp'.result = "received"
         /\ AcknowledgeReq(vend_id, command_id, "failure", TRUE))
        => /\ \A q \in DOMAIN db.products :
                db'.products[q].stock >= db.products[q].stock
           /\ db'.products[db.commands[command_id].product_id].stock
                >= hist[command_id].stock0]_vars

\* C10 amended: processing a failure acknowledgment lowers no product's
\* stock, and leaves the stock of the command's product not below its value
\* when the command was created provided no admin edit and no other purchase
\* lowered that stock in between.
C10_FailureNotBelowUnlessSold ==
    [][\A vend_id \in VendIds, command_id \in CommandIds(db) :
        (/\ resp'.op = "acknowledge" /\ resp'.result = "received"
         /\ AcknowledgeReq(vend_id, command_id, "failure", TRUE))
        => /\ \A q \in DOMAIN db.products :
                db'.products[q].stock >= db.products[q].stock
           /\ ~hist[command_id].lowered =>
                db'.products[db.commands[command_id].product_id].stock
                    >= hist[command_id].stock0]_vars

\* A failure was processed for a command whose product another machine
\* bought in between: the stock is one below its value at creation.
C10_Witness ==
    /\ Answered("acknowledge", "received")
    /\ Len(db.commands) = 2
    /\ db.commands[1].status = "acknowledged_failure"
    /\ db.commands[2].status = "pending"
    /\ db.commands[2].product_id = db.commands[1].product_id
    /\ db.products[db.commands[1].product_id].stock = MaxStock - 1

\* C11: a purchase request for a product id that has no row, or for a
\* product whose stock is 0, is refused (invalid product, out of stock): no
\* command row is added, no command changes and no stock changes.
C11_NoProductNoCommand ==
    [][resp'.op = "buy_item" =>
        \A product_id \in ProductIds, vend_id \in VendIds :
            (~HasProduct(db, product_id) \/ db.products[product_id].stock = 0)
            => \/ /\ resp'.result = IF HasProduct(db, product_id)
                                     THEN "out_of_stock" ELSE "invalid_product"
                  /\ db' = db
               \/ \A commit_ok \in BOOLEAN :
                     ~BuyItemReq(product_id, vend_id, commit_ok)]_vars

\* A purchase of a sold-out product was refused: its last unit went to a
\* command that is in the ledger.
C11_Witness ==
    /\ Answered("buy_item", "out_of_stock")
    /\ \E c \in CommandIds(db) : db.products[db.commands[c].product_id].stock = 0

\* C12: a get_command poll, for any machine in any reachable store, leaves
\* the whole store as it was: every command's status and acknowledged_at,
\* every product's stock and the Transaction rows; the command it returns is
\* still pending afterwards.
C12_PollReadOnly ==
    [][resp'.op = "get_command" =>
        \A vend_id \in VendIds :
            GetCommandReq(vend_id) =>
                /\ db'.commands = db.commands
                /\ db'.products = db.products
                /\ db'.transactions = db.transactions
                /\ PendingCommands(db', vend_id) = PendingCommands(db, vend_id)]_vars

\* A poll returned a command while the store holds an acknowledged command
\* with its Transaction row.
C12_Witness ==
    /\ resp.op = "get_command"
    /\ resp.body.command_id # NULL
    /\ Len(db.transactions) = 1

NoCommand == [motor_id |-> NULL, command_id |-> NULL]

C14_SameCommandUntilAcked ==
    [][/\ \A c \in CommandIds(db) :
            /\ db'.commands[c].motor_id = db.commands[c].motor_id
            /\ db'.commands[c].vend_id = db.commands[c].vend_id
            /\ (db.commands[c].status = "pending"
                 /\ db'.commands[c].status # "pending")
               => resp'.op = "acknowledge" /\ resp'.result = "received"
       /\ resp'.op = "get_command" =>
            \A vend_id \in VendIds :
                GetCommandReq(vend_id) =>
                    /\ \A c \in PendingCommands(db, vend_id) :
                          /\ resp'.body = [motor_id |-> db.commands[c].motor_id,
                                           command_id |-> c]
                          /\ db'.commands[c].status = "pending"
                    /\ \A c \in CommandIds(db) :
                          db.commands[c].status # "pending"
                          => resp'.body.command_id # c]_vars

\* A poll found nothing for a machine: each machine's command has been
\* acknowledged.
C14_Witness ==
    /\ resp.op = "get_command"
    /\ resp.body = NoCommand
    /\ \A vend_id \in VendIds :
          \E c \in CommandIds(db) :
              /\ db.commands[c].vend_id = vend_id
              /\ db.commands[c].status # "pending"

\* C15: in every reachable store, an acknowledge request naming a
\* command_id that has no row is answered "Command not found" and leaves the
\* store as it is, whatever its vend_id and outcome.
C15_UnknownCommandNotFound ==
    \A vend_id \in VendIds, ack_status \in AckStatuses, commit_ok \in BOOLEAN :
        \A command_id \in (1..(MaxCommands + 1)) \ CommandIds(db) :
            acknowledge(db, vend_id, command_id, ack_status, now, commit_ok)
                = [db |-> db, result |-> "not_found"]

\* An acknowledgment of an unknown command_id was answered not found while
\* the ledger holds a pending command and a logged success.
C15_Witness ==
    /\ Answered("acknowledge", "not_found")
    /\ Len(db.transactions) = 1
    /\ \E c \in CommandIds(db) : db.commands[c].status = "pending"

Opposite(status) ==
    IF status = "acknowledged_success" THEN "failure" ELSE "success"

\* C16: in every reachable store, a command that has left pending answers
\* an acknowledgment with the opposite outcome "already processed", and
\* that request leaves the store as it is: a success after a failure logs no
\* Transaction, a failure after a success raises no stock, neither changes
\* the status.
C16_FirstOutcomeWins ==
    \A c \in CommandIds(db) : \A commit_ok \in BOOLEAN :
        db.commands[c].status # "pending" =>
            LET r == acknowledge(db, db.commands[c].vend_id, c,
                                 Opposite(db.commands[c].status), now, commit_ok)
            IN /\ r.result = "already_processed"
               /\ r.db.commands[c].status = db.commands[c].status
               /\ r.db.transactions = db.transactions
               /\ r.db.products = db.products
               /\ r.db = db

\* An acknowledgment was answered "already processed" while a failed command
\* is in the ledger with no Transaction row and a success request for it
\* meets that answer.
C16_Witness ==
    /\ Answered("acknowledge", "already_processed")
    /\ db.transactions = <<>>
    /\ \E c \in CommandIds(db) :
          /\ db.commands[c].status = "acknowledged_failure"
          /\ acknowledge(db, db.commands[c].vend_id, c, "success", now, TRUE).result
                = "already_processed"

Terminal == {"acknowledged_success", "acknowledged_failure"}

\* C17: in every step of atomically executed requests, a command row is
\* created pending by a purchase, a command's status changes only from pending
\* to acknowledged_success or acknowledged_failure and only by a processed
\* acknowledge request, and a command in one of these two statuses keeps it;
\* no row leaves the ledger.
C17_StatusStateMachine ==
    [][/\ Len(db'.commands) >= Len(db.commands)
       /\ \A c \in CommandIds(db) :
            db'.commands[c].status # db.commands[c].status =>
                /\ db.commands[c].status = "pending"
                /\ db'.commands[c].status \in Terminal
                /\ resp'.op = "acknowledge" /\ resp'.result = "received"
       /\ \A c \in CommandIds(db') \ CommandIds(db) :
            /\ db'.commands[c].status = "pending"
            /\ resp'.op = "buy_item" /\ resp'.result = "initiated"]_vars

\* Both terminal statuses are in the ledger and an acknowledgment of a
\* command in one of them has been answered "already processed".
C17_Witness ==
    /\ Answered("acknowledge", "already_processed")
    /\ \E c \in CommandIds(db) : db.commands[c].status = "acknowledged_success"
    /\ \E c \in CommandIds(db) : db.commands[c].status = "acknowledged_failure"

\* C18: in every reachable store, a success or failure acknowledgment of a
\* pending command whose commit fails is answered with the database error
\* and leaves the store as it was (the command pending, the stock, the
\* Transaction rows), and the same request retried with a commit that
\* succeeds is applied in full: the status set, and the Transaction added
\* or the stock raised by 1.
C18_FailedCommitRollsBack ==
    \A c \in CommandIds(db) : \A ack_status \in {"success", "failure"} :
        db.commands[c].status = "pending" =>
            LET v == db.commands[c].vend_id
                p == db.commands[c].product_id
                failed == acknowledge(db, v, c, ack_status, now, FALSE)
                retry == acknowledge(failed.db, v, c, ack_status, now + 1, TRUE)
            IN /\ failed.result = "db_error"
               /\ failed.db = db
               /\ retry.result = "received"
               /\ retry.db.commands[c].status = "acknowledged_" \o ack_status
               /\ ack_status = "success" =>
                     /\ Len(retry.db.transactions) = Len(db.transactions) + 1
                     /\ retry.db.products = db.products
               /\ ack_status = "failure" =>
                     /\ retry.db.products[p].stock = db.products[p].stock + 1
                     /\ retry.db.transactions = db.transactions

\* An acknowledgment met the database error and its command is still
\* pending, with the stock its purchase left and no Transaction row.
C18_Witness ==
    /\ Answered("acknowledge", "db_error")
    /\ db.transactions = <<>>
    /\ Len(db.commands) = 1
    /\ db.commands[1].status = "pending"
    /\ db.products[db.commands[1].product_id].stock = MaxStock - 1

\* C19: when purchase requests of one machine interleave between their
\* check for a pending command and their commit (SpecBuy), the machine still
\* has at most one command in a non-terminal status in every reachable
\* store.
C19_SingleFlightWhenRacing ==
    \A vend_id \in VendIds :
        \A c1, c2 \in NonTerminalCommands(db, vend_id) : c1 = c2

Statuses == {"pending"} \cup Terminal

\* C20: in every reachable store, an acknowledgment of a pending command
\* with an outcome value other than "success" and "failure" is answered with
\* the invalid-status error and leaves the store as it is; every stored
\* status is one of pending, acknowledged_success, acknowledged_failure.
C20_InvalidOutcomeRejected ==
    /\ \A c \in CommandIds(db) : db.commands[c].status \in Statuses
    /\ \A c \in CommandIds(db) :
        \A ack_status \in AckStatuses \ {"success", "failure"} :
            \A commit_ok \in BOOLEAN :
                db.commands[c].status = "pending" =>
                    acknowledge(db, db.commands[c].vend_id, c, ack_status, now,
                                commit_ok)
                        = [db |-> db, result |-> "invalid_status"]

\* C21: every product's stock is >= 0 in every reachable store, after any
\* sequence of atomically executed purchases, acknowledgments and admin add,
\* edit and delete requests (SpecAdmin).
C21_StockNeverNegative ==
    \A p \in DOMAIN db.products : db.products[p].stock >= 0

\* An edit with a negative stock was refused for a product whose last unit
\* is sold: its stock is 0 and a command holds it.
C21_Witness ==
    /\ Answered("edit_product", "invalid_data")
    /\ \E c \in CommandIds(db) :
          /\ db.commands[c].status = "pending"
          /\ db.products[db.commands[c].product_id].stock = 0

\* Every command and every Transaction row names a product that has a row.
CommandsHaveProducts ==
    /\ \A c \in CommandIds(db) : HasProduct(db, db.commands[c].product_id)
    /\ \A i \in DOMAIN db.transactions :
          HasProduct(db, db.transactions[i].product_id)

\* C22: when a machine has two or more pending commands with the same
\* created_at, get_command returns the one with the lowest id: every row the
\* query may return for a machine has the lowest id among the machine's
\* pending commands of the least created_at.
C22_LowestIdOnTies ==
    \A vend_id \in VendIds :
        \A c \in OldestPending(db, vend_id) :
            \A o \in PendingCommands(db, vend_id) :
                db.commands[o].created_at = db.commands[c].created_at => c <= o

\* C24 as stated: a success acknowledgment of a pending command whose
\* product's stock is 0 moves the command to stock_error, lowers no stock and
\* logs no Transaction.
C24_StockErrorAtZero ==
    \A c \in CommandIds(db) :
        (/\ db.commands[c].status = "pending"
         /\ db.products[db.commands[c].product_id].stock = 0)
        => LET r == acknowledge(db, db.commands[c].vend_id, c, "success", now, TRUE)
           IN /\ r.db.commands[c].status = "stock_error"
              /\ r.db.products = db.products
              /\ r.db.transactions = db.transactions

\* C24 amended: a success acknowledgment of a pending command whose
\* product's stock is 0 is processed like any other: the command moves to
\* acknowledged_success, one Transaction row (quantity 1, the product's
\* price) is logged and no stock changes, so the stock stays 0 and is never
\* negative; no command is ever in stock_error.
C24_SuccessAtZeroStock ==
    /\ \A c \in CommandIds(db) : db.commands[c].status # "stock_error"
    /\ \A c \in CommandIds(db) :
        LET p == db.commands[c].product_id IN
        (db.commands[c].status = "pending" /\ db.products[p].stock = 0)
        => LET r == acknowledge(db, db.commands[c].vend_id, c, "success", now, TRUE)
           IN /\ r.result = "received"
              /\ r.db.commands[c].status = "acknowledged_success"
              /\ r.db.transactions =
                    Append(db.transactions, Transaction(p, 1, db.products[p].price))
              /\ r.db.products = db.products
              /\ r.db.products[p].stock = 0

\* The last unit of a product was bought and its command acknowledged with
\* success: the stock is 0 and the sale is logged.
C24_Witness ==
    /\ Answered("acknowledge", "received")
    /\ Len(db.commands) = 1
    /\ db.commands[1].status = "acknowledged_success"
    /\ db.products[db.commands[1].product_id].stock = 0
    /\ Len(db.transactions) = 1

\* C25: no two products ever share a motor_id: in every reachable store,
\* after any sequence of add, edit and delete requests, the rejected ones
\* included, motor_id is unique across the stored products.
C25_MotorIdUnique ==
    \A p, q \in DOMAIN db.products :
        db.products[p].motor_id = db.products[q].motor_id => p = q

\* An edit that asked for the other product's motor_id was refused; two
\* products are stored.
C25_Witness ==
    /\ Answered("edit_product", "motor_taken")
    /\ Cardinality(DOMAIN db.products) = 2

\* C27: when purchase requests of different machines for one product
\* interleave between reading the stock and committing (SpecBuy), a purchase
\* that commits for a machine with no pending command is admitted against a
\* stock that is still positive (no more commands than units) and lowers the
\* stored stock by exactly 1 (no lost update).
C27_NoOversellWhenRacing ==
    [][\A w \in Workers :
        (/\ sess[w].pc = "admitted" /\ sess'[w].pc = "idle"
         /\ Len(db'.commands) = Len(db.commands) + 1
         /\ PendingCommands(db, sess[w].vend_id) = {})
        => LET p == sess[w].product_id IN
           /\ db.products[p].stock > 0
           /\ db'.products[p].stock = db.products[p].stock - 1]_vars

\* The commands admitted for a product: pending or acknowledged_success.
AdmittedFor(d, product_id) ==
    {c \in CommandIds(d) :
        /\ d.commands[c].product_id = product_id
        /\ d.commands[c].status \in {"pending", "acknowledged_success"}}

\* Current stock + pending commands + acknowledged_success commands.
StockAndAdmitted(d, product_id) ==
    d.products[product_id].stock + Cardinality(AdmittedFor(d, product_id))

\* The sum is the same for every product of store d in store d2, and a
\* product that d2 adds has no command and the stock it was added with.
SumsKept(d, d2) ==
    \/ d2 = d
    \/ \A p \in DOMAIN d2.products :
          IF p \in DOMAIN d.products
          THEN StockAndAdmitted(d2, p) = StockAndAdmitted(d, p)
          ELSE AdmittedFor(d2, p) = {}

\* C28: with atomically executed requests and no admin edit, for every
\* product the sum of its stock, its pending commands and its
\* acknowledged_success commands is its initial stock in every reachable
\* state: a product is added with no command, so the sum starts as the stock
\* it was added with, and in every reachable store no purchase, poll,
\* acknowledgment or add request changes any product's sum.
C28_StockConserved ==
    /\ \A product_id \in ProductIds, vend_id \in VendIds, commit_ok \in BOOLEAN :
          \A d2 \in {buy_item(db, product_id, vend_id, now, commit_ok).db} :
              SumsKept(db, d2)
    /\ \A vend_id \in VendIds, command_id \in CommandIds(db),
          ack_status \in AckStatuses, commit_ok \in BOOLEAN :
          \A d2 \in {acknowledge(db, vend_id, command_id, ack_status, now,
                                 commit_ok).db} :
              SumsKept(db, d2)
    /\ \A command_id \in CommandIds(db) \cup {NULL} :
          \A d2 \in {get_command_store(db, command_id)} : SumsKept(db, d2)
    /\ \A price \in Prices, stock \in (-1)..MaxStock,
          motor_id \in MotorIds \cup {0} :
          \A d2 \in {add_product(db, price, stock, motor_id).db} :
              SumsKept(db, d2)

\* All units of a product are out: its stock is 0, one of its commands is
\* pending and one is acknowledged with success.
C28_Witness ==
    /\ Len(db.commands) = MaxCommands
    /\ \E p \in DOMAIN db.products :
          /\ db.products[p].stock = 0
          /\ Cardinality(AdmittedFor(db, p)) = MaxStock
          /\ \E c \in AdmittedFor(db, p) : db.commands[c].status = "pending"
          /\ \E c \in AdmittedFor(db, p) :
                db.commands[c].status = "acknowledged_success"

\* C29: in every reachable store, a purchase request for a machine that has
\* a pending command is refused whatever product it names (one in stock, one
\* sold out, one with no row) and whether or not a commit would succeed: the
\* store it leaves is the store it found, so no command is created, the
\* pending command keeps its status and no stock changes.
C29_BusyMachineRefused ==
    \A vend_id \in VendIds :
        PendingCommands(db, vend_id) # {} =>
            \A product_id \in ProductIds \cup {NULL}, commit_ok \in BOOLEAN :
                LET r == buy_item(db, product_id, vend_id, now, commit_ok) IN
                /\ r.result \in {"in_progress", "out_of_stock", "invalid_product"}
                /\ r.db = db

\* A purchase of a product in stock was refused for a machine whose pending
\* command is for another product.
C29_Witness ==
    /\ Answered("buy_item", "in_progress")
    /\ Len(db.commands) = 1
    /\ db.commands[1].status = "pending"
    /\ \E p \in DOMAIN db.products :
          p # db.commands[1].product_id /\ db.products[p].stock > 0

\* C30: under a fair actuator (SpecLive: every machine keeps polling and
\* acknowledging the command it is handed, with its own vend_id and a valid
\* outcome, and the store does not fail every commit for ever), every
\* pending command eventually reaches a terminal status.
C30_PendingReachesTerminal ==
    \A c \in 1..MaxCommands :
        (c \in CommandIds(db) /\ db.commands[c].status = "pending")
            ~> (c \in CommandIds(db) /\ db.commands[c].status \in Terminal)

\* Every command the ledger has room for has reached a terminal status, the
\* last of them by the acknowledgment just committed.
C30_Witness ==
    /\ Len(db.commands) = MaxCommands
    /\ \A c \in CommandIds(db) : db.commands[c].status \in Terminal
    /\ \E c \in CommandIds(db) : db.commands[c].acknowledged_at = now
    /\ Answered("acknowledge", "received")

\* The commands of a machine that have been acknowledged.
AcknowledgedCommands(d, vend_id) ==
    {c \in CommandIds(d) : d.commands[c].vend_id = vend_id
                           /\ d.commands[c].status \in Terminal}

\* C31: in every reachable store, for a machine whose commands have all been
\* acknowledged (with either outcome), a purchase request for a product in
\* stock whose commit succeeds is admitted: one pending command is added for
\* the machine, and it is the row the machine's next poll returns, with the
\* product's motor_id.
C31_ReleasedAfterAck ==
    \A vend_id \in VendIds :
        (AcknowledgedCommands(db, vend_id) # {}
         /\ PendingCommands(db, vend_id) = {})
        => \A product_id \in DOMAIN db.products :
              db.products[product_id].stock > 0 =>
                  LET r == buy_item(db, product_id, vend_id, now, TRUE)
                      new_id == Len(db.commands) + 1
                  IN /\ r.result = "initiated"
                     /\ Len(r.db.commands) = new_id
                     /\ r.db.commands[new_id].status = "pending"
                     /\ r.db.commands[new_id].vend_id = vend_id
                     /\ OldestPending(r.db, vend_id) = {new_id}
                     /\ get_command(r.db, new_id)
                          = [motor_id |-> db.products[product_id].motor_id,
                             command_id |-> new_id]

\* A poll returned a machine's second command; its first one has been
\* acknowledged.
C31_Witness ==
    /\ resp.op = "get_command"
    /\ resp.body.command_id = 2
    /\ Len(db.commands) = 2
    /\ db.commands[1].vend_id = db.commands[2].vend_id
    /\ db.commands[1].status \in Terminal
    /\ db.commands[2].status = "pending"

\* The status of every command of another machine than vend_id is in d2 what
\* it is in d.
OthersKept(d, d2, vend_id) ==
    \A c \in CommandIds(d) :
        d.commands[c].vend_id # vend_id =>
            /\ c \in CommandIds(d2)
            /\ d2.commands[c].status = d.commands[c].status
            /\ d2.commands[c].vend_id = d.commands[c].vend_id

\* C32: in every reachable store, every row a poll of a machine may return
\* has that machine's vend_id, and no purchase request and no acknowledge
\* request made with a machine's vend_id, whatever command, product and
\* outcome it names, changes the status of a command of another machine.
C32_MachineIsolation ==
    \A vend_id \in VendIds :
        /\ \A c \in OldestPending(db, vend_id) :
              /\ db.commands[c].vend_id = vend_id
              /\ get_command(db, c).command_id = c
        /\ \A product_id \in ProductIds, commit_ok \in BOOLEAN :
              \A d2 \in {buy_item(db, product_id, vend_id, now, commit_ok).db} :
                  OthersKept(db, d2, vend_id)
        /\ \A command_id \in CommandIds(db), ack_status \in AckStatuses,
              commit_ok \in BOOLEAN :
              \A d2 \in {acknowledge(db, vend_id, command_id, ack_status, now,
                                     commit_ok).db} :
                  OthersKept(db, d2, vend_id)

\* Each machine has a pending command, and an acknowledgment that named the
\* other machine's command was refused.
C32_Witness ==
    /\ Answered("acknowledge", "mismatch")
    /\ \A vend_id \in VendIds : PendingCommands(db, vend_id) # {}

\* C33: in every reachable store, for every pending command, a poll that
\* returns the command after an edit_product request for the command's
\* product, whatever price, stock and motor_id the request carries, returns
\* what a poll before the edit returns, and the command a purchase request
\* creates is dispatched with the motor_id the product has at that moment.
C33_DispatchedMotorFixed ==
    /\ \A c \in CommandIds(db) :
          db.commands[c].status = "pending" =>
              \A price \in Prices, stock \in (-1)..MaxStock,
                 motor_id \in MotorIds \cup {0} :
                  \A d2 \in {edit_product(db, db.commands[c].product_id, price,
                                           stock, motor_id).db} :
                      /\ c \in CommandIds(d2)
                      /\ d2.commands[c].status = "pending"
                      /\ get_command(d2, c) = get_command(db, c)
    /\ \A product_id \in ProductIds, vend_id \in VendIds :
          \A r \in {buy_item(db, product_id, vend_id, now, TRUE)} :
              r.result = "initiated" =>
                  get_command(r.db, Len(r.db.commands)).motor_id
                      = db.products[product_id].motor_id

\* A poll returned a pending command with the motor_id it was created with,
\* after an edit gave the command's product another motor_id.
C33_Witness ==
    /\ resp.op = "get_command"
    /\ resp.body.command_id \in CommandIds(db)
    /\ db.commands[resp.body.command_id].status = "pending"
    /\ resp.body.motor_id = db.commands[resp.body.command_id].motor_id
    /\ resp.body.motor_id
         # db.products[db.commands[resp.body.command_id].product_id].motor_id

\* C34: in every reachable store, a purchase request that gets as far as the
\* commit and whose commit fails leaves the store as it was (no command row
\* of it, the product's stock unchanged), and the retry whose commit succeeds
\* adds exactly one command and lowers the stock by exactly one.
C34_FailedCommitRolledBack ==
    \A product_id \in ProductIds, vend_id \in VendIds :
        \A failed \in {buy_item(db, product_id, vend_id, now, FALSE)} :
            failed.result = "db_error" =>
                /\ failed.db.commands = db.commands
                /\ failed.db.products = db.products
                /\ \A retry \in {buy_item(failed.db, product_id, vend_id, now, TRUE)} :
                      /\ retry.result = "initiated"
                      /\ Len(retry.db.commands) = Len(db.commands) + 1
                      /\ Cardinality(PendingCommands(retry.db, vend_id)) = 1
                      /\ retry.db.products[product_id].stock
                           = db.products[product_id].stock - 1

\* A purchase request failed at its commit, after an earlier purchase was
\* stored: a machine has no pending command and a product is in stock, so
\* the retry can be made.
C34_Witness ==
    /\ Answered("buy_item", "db_error")
    /\ \E vend_id \in VendIds : PendingCommands(db, vend_id) = {}
    /\ \E product_id \in DOMAIN db.products : db.products[product_id].stock > 0
    /\ Len(db.commands) > 0

=============================================================================
